---- MODULE Spec2Model ----
(***************************************************************************)
(* Model of TVDataProcessor (src/tv_data_processor.py): the six-stage      *)
(* pipeline load -> preprocess -> merge -> aggregate -> convert -> save,   *)
(* with the pandas tables it builds and mutates.                           *)
(*                                                                         *)
(* A table is [cols |-> set of column names, rows |-> sequence of rows];   *)
(* a row is a function from the table's columns to cells; a cell is <<>>   *)
(* (NaN / NaT / None) or <<v>>.  Text is a sequence of characters, so that *)
(* str.strip and the ordering of strings are computed, not assumed.        *)
(* DataFrames are objects: heap maps each allocation site to the table it  *)
(* created, and the attributes of self are references into heap.           *)
(***************************************************************************)
EXTENDS Integers, Sequences, FiniteSets, TLC

VARIABLES pc, raised, workbook, heap, df_viewings, df_producers,
          final_summary, output_file

vars == <<pc, raised, workbook, heap, df_viewings, df_producers,
          final_summary, output_file>>

----------------------------------------------------------------------------
(* Bound of the explored inputs: the rows of the viewing sheet *)

MaxRows == 2

----------------------------------------------------------------------------
(* Cells and text *)

NULL == <<>>

Some(v) == <<v>>

IsNull(c) == c = <<>>

\* characters in ascending code-point order
Chars == <<" ", "A", "B", "K", "P", "U", "k", "n", "o", "w">>

Code == [c \in {Chars[i] : i \in 1..Len(Chars)} |->
            CHOOSE i \in 1..Len(Chars) : Chars[i] = c]

\* s < t on strings
RECURSIVE TextLess(_, _)
TextLess(s, t) ==
    IF s = t \/ t = <<>> THEN FALSE
    ELSE IF s = <<>> THEN TRUE
    ELSE IF Head(s) # Head(t) THEN Code[Head(s)] < Code[Head(t)]
    ELSE TextLess(Tail(s), Tail(t))

RECURSIVE LStrip(_)
LStrip(s) == IF s # <<>> /\ Head(s) = " " THEN LStrip(Tail(s)) ELSE s

RECURSIVE RStrip(_)
RStrip(s) ==
    IF s # <<>> /\ s[Len(s)] = " " THEN RStrip(SubSeq(s, 1, Len(s) - 1)) ELSE s

\* str.strip()
Strip(s) == RStrip(LStrip(s))

Unknown == <<"U", "n", "k", "n", "o", "w", "n">>

None == "None"

----------------------------------------------------------------------------
(* Generic table helpers *)

MapRows(rows, F(_)) == [i \in 1..Len(rows) |-> F(rows[i])]

\* df[col] = df[col].map(F): the column is replaced in every row
SetColumn(t, col, F(_)) ==
    [cols |-> t.cols \cup {col},
     rows |-> MapRows(t.rows,
                LAMBDA r : [c \in t.cols \cup {col} |->
                               IF c = col THEN F(r) ELSE r[c]])]

\* the elements of a finite set in ascending order of the strict total order Less
SortSet(S, Less(_, _)) ==
    [k \in 1..Cardinality(S) |->
             CHOOSE x \in S : Cardinality({y \in S : Less(y, x)}) = k - 1]

RECURSIVE Flatten(_)
Flatten(ss) == IF ss = <<>> THEN <<>> ELSE Head(ss) \o Flatten(Tail(ss))

RECURSIVE SumSeq(_)
SumSeq(s) == IF s = <<>> THEN 0 ELSE Head(s) + SumSeq(Tail(s))

MaxOf(S) == CHOOSE x \in S : \A y \in S : y <= x

\* the values of a column, nulls skipped, in row order
ColumnValues(rows, col) ==
    LET present == SelectSeq(rows, LAMBDA r : ~IsNull(r[col]))
    IN  [i \in 1..Len(present) |-> present[i][col][1]]

----------------------------------------------------------------------------
(* preprocess_data *)

\* pd.to_datetime(v, errors='coerce') on one cell: an unparseable value is NaT
ToDatetime(c) ==
    IF IsNull(c) THEN NULL
    ELSE IF c[1].kind = "datetime"
         THEN Some([month |-> c[1].month, day |-> c[1].day])
         ELSE NULL

\* .dt.to_period('M') on one cell
ToPeriod(c) == IF IsNull(c) THEN NULL ELSE Some(c[1].month)

\* .str.strip() on one cell
StrStrip(c) == IF IsNull(c) THEN NULL ELSE Some(Strip(c[1]))

\* DataFrame.fillna({col: v}, inplace=True): a key that is not a column is skipped
Fillna(t, col, v) ==
    IF col \in t.cols
    THEN SetColumn(t, col, LAMBDA r : IF IsNull(r[col]) THEN Some(v) ELSE r[col])
    ELSE t

\* the body of preprocess_data applied to the viewing table: the table as the
\* statements leave it, and whether a column lookup raised KeyError
Preprocess(t) ==
    IF "Date" \notin t.cols THEN [ok |-> FALSE, table |-> t]
    ELSE
      LET t1 == SetColumn(t, "Date", LAMBDA r : ToDatetime(r["Date"]))
          t2 == SetColumn(t1, "Month", LAMBDA r : ToPeriod(r["Date"]))
      IN  IF "Programme" \notin t2.cols THEN [ok |-> FALSE, table |-> t2]
          ELSE
            LET t3 == SetColumn(t2, "Programme", LAMBDA r : StrStrip(r["Programme"]))
            IN  IF "Territory" \notin t3.cols THEN [ok |-> FALSE, table |-> t3]
                ELSE
                  LET t4 == SetColumn(t3, "Territory",
                                      LAMBDA r : StrStrip(r["Territory"]))
                  IN  [ok |-> TRUE, table |-> Fillna(t4, "Viewers", 0)]

----------------------------------------------------------------------------
(* merge_data *)

KeysOf(t, col) == {t.rows[i][col] : i \in 1..Len(t.rows)}

CellTextLess(a, b) == ~IsNull(a) /\ (IsNull(b) \/ TextLess(a[1], b[1]))

\* left.merge(right, on=key, how='outer'): the union of the keys in sorted order;
\* per key every pairing of a left row with a right row, a row without a
\* partner being completed with nulls
OuterMerge(left, right, key) ==
    LET cols == left.cols \cup right.cols
        keys == SortSet(KeysOf(left, key) \cup KeysOf(right, key), CellTextLess)
        joined(k, l, hasL, r, hasR) ==
            [c \in cols |->
                     IF c = key THEN k
                     ELSE IF c \in left.cols THEN (IF hasL THEN l[c] ELSE NULL)
                     ELSE (IF hasR THEN r[c] ELSE NULL)]
        forKey(k) ==
            LET L == SelectSeq(left.rows, LAMBDA x : x[key] = k)
                R == SelectSeq(right.rows, LAMBDA x : x[key] = k)
            IN  IF R = <<>>
                      THEN [i \in 1..Len(L) |-> joined(k, L[i], TRUE, L[i], FALSE)]
                      ELSE IF L = <<>>
                      THEN [i \in 1..Len(R) |-> joined(k, R[i], FALSE, R[i], TRUE)]
                      ELSE [n \in 1..(Len(L) * Len(R)) |->
                              joined(k, L[((n - 1) \div Len(R)) + 1], TRUE,
                                        R[((n - 1) % Len(R)) + 1], TRUE)]
    IN  [cols |-> cols, rows |-> Flatten([i \in 1..Len(keys) |-> forKey(keys[i])])]

\* merge_data without the fillna of Producer
MergeWithoutFill(producers, viewings) ==
    IF "Programme" \notin producers.cols \/ "Programme" \notin viewings.cols
    THEN [ok |-> FALSE, table |-> viewings]
    ELSE [ok |-> TRUE, table |-> OuterMerge(producers, viewings, "Programme")]

\* the body of merge_data: the new table, and whether the join raised KeyError
Merge(producers, viewings) ==
    IF "Programme" \notin producers.cols \/ "Programme" \notin viewings.cols
    THEN [ok |-> FALSE, table |-> viewings]
    ELSE [ok |-> TRUE,
          table |-> Fillna(OuterMerge(producers, viewings, "Programme"),
                           "Producer", Unknown)]

----------------------------------------------------------------------------
(* aggregate_data *)

GroupCols == {"Producer", "Month", "Channel"}

\* the group key of a row
KeyOf(r) == <<r["Producer"], r["Month"], r["Channel"]>>

\* groupby drops the rows that have a null in one of the key columns
HasKey(r) == \A c \in GroupCols : ~IsNull(r[c])

\* ascending (Producer, Month, Channel) on non-null keys
KeyLess(a, b) ==
    \/ TextLess(a[1][1], b[1][1])
    \/ a[1] = b[1] /\ a[2][1] < b[2][1]
    \/ a[1] = b[1] /\ a[2] = b[2] /\ a[3][1] < b[3][1]

\* the keys of groupby(['Producer', 'Month', 'Channel']) in the order of its result
GroupKeys(rows) ==
    SortSet({KeyOf(rows[i]) : i \in {j \in 1..Len(rows) : HasKey(rows[j])}}, KeyLess)

GroupRows(rows, k) == SelectSeq(rows, LAMBDA r : HasKey(r) /\ KeyOf(r) = k)

\* lambda x: x.loc[x.idxmax()] on the Programme values of a group: idxmax is
\* taken over the series it is given, the first label of its greatest value
TopProgramme(g) ==
    LET x == ColumnValues(g, "Programme")
        idxmax == CHOOSE i \in 1..Len(x) :
                    /\ \A j \in 1..Len(x) : ~TextLess(x[i], x[j])
                    /\ \A j \in 1..(i - 1) : x[j] # x[i]
    IN  Some(x[idxmax])

HighestViewers(g) ==
    LET v == ColumnValues(g, "Viewers") IN Some(MaxOf({v[i] : i \in 1..Len(v)}))

\* 'count' in place of 'sum'
CountOfViewers(g) == Some(Len(ColumnValues(g, "Viewers")))

SumOfViewers(g) == Some(SumSeq(ColumnValues(g, "Viewers")))

SummaryCols == GroupCols \cup {"Top_Programme", "Highest_Viewers", "Sum_of_Viewers"}

\* groupby(...).agg(Top_Programme=..., Highest_Viewers=..., Sum_of_Viewers=...).reset_index()
PeakAndSum(t) ==
    LET keys == GroupKeys(t.rows)
        rec(k) ==
            LET g == GroupRows(t.rows, k)
            IN  [c \in SummaryCols |->
                         CASE c = "Producer" -> k[1]
                           [] c = "Month" -> k[2]
                           [] c = "Channel" -> k[3]
                           [] c = "Top_Programme" -> TopProgramme(g)
                           [] c = "Highest_Viewers" -> HighestViewers(g)
                           [] c = "Sum_of_Viewers" -> SumOfViewers(g)]
    IN  [cols |-> SummaryCols, rows |-> [i \in 1..Len(keys) |-> rec(keys[i])]]

\* na_position='first'
CellLessNullsFirst(a, b, Lt(_, _)) == ~IsNull(b) /\ (IsNull(a) \/ Lt(a[1], b[1]))

\* ascending order of one sort column, nulls last
CellLess(a, b, Lt(_, _)) == ~IsNull(a) /\ (IsNull(b) \/ Lt(a[1], b[1]))

IntLess(a, b) == a < b

DateLess(a, b) == a.month < b.month \/ (a.month = b.month /\ a.day < b.day)

\* the order of sort_values(..., na_position='first')
SortLessNullsFirst(r, q) ==
    \/ CellLessNullsFirst(r["Producer"], q["Producer"], TextLess)
    \/ /\ r["Producer"] = q["Producer"]
       /\ \/ CellLessNullsFirst(r["Month"], q["Month"], IntLess)
          \/ /\ r["Month"] = q["Month"]
             /\ \/ CellLessNullsFirst(r["Channel"], q["Channel"], IntLess)
                \/ /\ r["Channel"] = q["Channel"]
                   /\ CellLessNullsFirst(r["Date"], q["Date"], DateLess)

\* the order of sort_values(['Producer', 'Month', 'Channel', 'Date'])
SortLess(r, q) ==
    \/ CellLess(r["Producer"], q["Producer"], TextLess)
    \/ /\ r["Producer"] = q["Producer"]
       /\ \/ CellLess(r["Month"], q["Month"], IntLess)
          \/ /\ r["Month"] = q["Month"]
             /\ \/ CellLess(r["Channel"], q["Channel"], IntLess)
                \/ /\ r["Channel"] = q["Channel"]
                   /\ CellLess(r["Date"], q["Date"], DateLess)

\* the running sum taken before the table is sorted
SortValuesSkipped(t) == t

\* a row put into sorted rows, behind the rows it is not less than
RECURSIVE InsertRow(_, _)
InsertRow(r, sorted) ==
    IF sorted = <<>> THEN <<r>>
    ELSE IF SortLess(r, Head(sorted)) THEN <<r>> \o sorted
    ELSE <<Head(sorted)>> \o InsertRow(r, Tail(sorted))

\* the stable sort of the rows
RECURSIVE SortRows(_)
SortRows(rows) ==
    IF rows = <<>> THEN <<>>
    ELSE InsertRow(rows[Len(rows)], SortRows(SubSeq(rows, 1, Len(rows) - 1)))

SortValues(t) == [cols |-> t.cols, rows |-> SortRows(t.rows)]

\* the running sum grouped by (Producer, Month, Channel) instead of Producer
RunningSumPerGroup(rows, i) ==
    IF IsNull(rows[i]["Viewers"]) THEN NULL
    ELSE Some(SumSeq(ColumnValues(
                SelectSeq(SubSeq(rows, 1, i),
                          LAMBDA r : KeyOf(r) = KeyOf(rows[i])),
                "Viewers")))

\* groupby(['Producer'])['Viewers'].cumsum() at row i: the sum of the Viewers of
\* the rows of the same Producer up to and including row i, null where Viewers is
RunningSum(rows, i) ==
    IF IsNull(rows[i]["Viewers"]) THEN NULL
    ELSE Some(SumSeq(ColumnValues(
                SelectSeq(SubSeq(rows, 1, i),
                          LAMBDA r : r["Producer"] = rows[i]["Producer"]),
                "Viewers")))

WithCumulative(t) ==
    [cols |-> t.cols \cup {"Cumulative_Viewers"},
     rows |-> [i \in 1..Len(t.rows) |->
                       [c \in t.cols \cup {"Cumulative_Viewers"} |->
                                IF c = "Cumulative_Viewers" THEN RunningSum(t.rows, i)
                                ELSE t.rows[i][c]]]]

CumulativeCols == GroupCols \cup {"Cumulative_Viewers"}

\* groupby(['Producer', 'Month', 'Channel'])['Cumulative_Viewers'].max().reset_index()
CumulativeSummary(t) ==
    LET keys == GroupKeys(t.rows)
        rec(k) ==
            LET v == ColumnValues(GroupRows(t.rows, k), "Cumulative_Viewers")
            IN  [c \in CumulativeCols |->
                         CASE c = "Producer" -> k[1]
                           [] c = "Month" -> k[2]
                           [] c = "Channel" -> k[3]
                           [] c = "Cumulative_Viewers" ->
                                 Some(MaxOf({v[i] : i \in 1..Len(v)}))]
    IN  [cols |-> CumulativeCols, rows |-> [i \in 1..Len(keys) |-> rec(keys[i])]]

\* the two aggregates merged on Producer alone
InnerMergeOnProducer(left, right) ==
    LET cols == left.cols \cup right.cols
        forRow(l) ==
            LET R == SelectSeq(right.rows, LAMBDA r : r["Producer"] = l["Producer"])
            IN  [i \in 1..Len(R) |->
                    [c \in cols |-> IF c \in left.cols THEN l[c] ELSE R[i][c]]]
    IN  [cols |-> cols,
         rows |-> Flatten([i \in 1..Len(left.rows) |-> forRow(left.rows[i])])]

\* left.merge(right, on=['Producer', 'Month', 'Channel']): the inner join, in the
\* order of the left keys
InnerMerge(left, right) ==
    LET cols == left.cols \cup right.cols
        forRow(l) ==
            LET R == SelectSeq(right.rows, LAMBDA r : KeyOf(r) = KeyOf(l))
            IN  [i \in 1..Len(R) |->
                    [c \in cols |-> IF c \in left.cols THEN l[c] ELSE R[i][c]]]
    IN  [cols |-> cols,
         rows |-> Flatten([i \in 1..Len(left.rows) |-> forRow(left.rows[i])])]

\* the columns the groupby and the aggregation look up
AggregateCols == GroupCols \cup {"Programme", "Viewers"}

\* the running sum also stored over the Viewers column
CumulativeOverViewers(t) ==
    LET u == WithCumulative(SortValues(t))
    IN  SetColumn(u, "Viewers", LAMBDA r : r["Cumulative_Viewers"])

\* the joined table as aggregate_data leaves it
SortedWithCumulative(t) == WithCumulative(SortValues(t))

\* final_summary of aggregate_data
Summarise(t) == InnerMerge(PeakAndSum(t), CumulativeSummary(SortedWithCumulative(t)))

----------------------------------------------------------------------------
(* convert_data_types and save_summary_to_json *)

Digits == <<"0", "1", "2", "3", "4", "5", "6", "7", "8", "9">>

\* str(Period) of a month of the year the viewing data is about
MonthLabel(m) ==
    <<"2", "0", "2", "4", "-", Digits[(m \div 10) + 1], Digits[(m % 10) + 1]>>

\* astype({...}): Month becomes its label, the counts stay integers
ConvertTypes(t) ==
    SetColumn(t, "Month", LAMBDA r : Some(MonthLabel(r["Month"][1])))

\* to_json(orient='records'): one record per row, in row order
ToJson(t) == t.rows

----------------------------------------------------------------------------
(* The workbooks explored *)

ViewingCols == {"Date", "Programme", "Territory", "Channel", "Viewers"}

ProducerCols == {"Programme", "Producer"}

ProgrammeA == <<"A">>

ProducerP == <<"P">>

\* the months, days, channels and viewer counts that occur in the sheets
Months == {1, 2}

Days == {1}

Channels == {1, 2}

ViewerCounts == {1}

RawProgrammes == {Some(ProgrammeA), Some(<<" ", "B">>)}

RawTerritories == {Some(<<" ", "U", "K">>)}

\* a cell of the Date column holds a date of the year, or text that is no date
RawDates ==
    {Some([kind |-> "text", month |-> 0, day |-> 0])}
    \cup {Some([kind |-> "datetime", month |-> m, day |-> d]) :
            m \in Months, d \in Days}

RawChannels == {NULL} \cup {Some(c) : c \in Channels}

RawViewers == {NULL} \cup {Some(v) : v \in ViewerCounts}

ViewingRows ==
    {[c \in ViewingCols |->
        CASE c = "Date" -> d
          [] c = "Programme" -> p
          [] c = "Territory" -> t
          [] c = "Channel" -> ch
          [] c = "Viewers" -> v] :
     d \in RawDates, p \in RawProgrammes, t \in RawTerritories,
     ch \in RawChannels, v \in RawViewers}

\* the sheets of one to n rows
SeqsUpTo(S, n) == UNION {[1..k -> S] : k \in 1..n}

ProducerRow(programme, producer) ==
    [c \in ProducerCols |-> IF c = "Programme" THEN Some(programme) ELSE producer]

\* programme A has two producer rows, one without a producer; B has none
ProducerSheets ==
    {<<ProducerRow(ProgrammeA, Some(ProducerP)), ProducerRow(ProgrammeA, NULL)>>}

\* a sheet without some of its columns
DropColumns(t, missing) ==
    [cols |-> t.cols \ missing,
     rows |-> MapRows(t.rows, LAMBDA r : [c \in t.cols \ missing |-> r[c]])]

\* every viewing sheet with all its columns, and the one-row sheets that lack a
\* column
Workbooks ==
    {[viewing |-> DropColumns([cols |-> ViewingCols, rows |-> v], m),
      producers |-> [cols |-> ProducerCols, rows |-> p]] :
     <<v, p, m>> \in
        {x \in SeqsUpTo(ViewingRows, MaxRows) \X ProducerSheets
                 \X ({{}} \cup {{c} : c \in ViewingCols}) :
            x[3] = {} \/ Len(x[1]) <= 1}}

----------------------------------------------------------------------------
(* The pipeline *)

Raise(stage, error) ==
    /\ pc' = "failed"
    /\ raised' = Some([stage |-> stage, error |-> error])

Init ==
    /\ pc = "start"
    /\ raised = NULL
    /\ workbook \in Workbooks
    /\ heap = <<>>
    /\ df_viewings = None
    /\ df_producers = None
    /\ final_summary = None
    /\ output_file = NULL

load_data ==
    /\ pc = "start"
    /\ \E outcome \in {"ok", "FileNotFoundError", "Exception"} :
         CASE outcome = "ok" ->
                /\ heap' = ("read_viewing" :> workbook.viewing)
                             @@ ("read_producers" :> workbook.producers)
                /\ df_viewings' = "read_viewing"
                /\ df_producers' = "read_producers"
                /\ pc' = "loaded"
                /\ UNCHANGED raised
           [] outcome = "FileNotFoundError" ->
                /\ Raise("load_data", "FileNotFoundError")
                /\ UNCHANGED <<heap, df_viewings, df_producers>>
           [] outcome = "Exception" ->
                \* the second sheet cannot be read
                /\ heap' = ("read_viewing" :> workbook.viewing)
                /\ df_viewings' = "read_viewing"
                /\ Raise("load_data", "Exception")
                /\ UNCHANGED df_producers
    /\ UNCHANGED <<workbook, final_summary, output_file>>

preprocess_data ==
    /\ pc = "loaded"
    /\ LET res == Preprocess(heap[df_viewings])
       IN  /\ heap' = [heap EXCEPT ![df_viewings] = res.table]
           /\ IF res.ok THEN pc' = "preprocessed" /\ UNCHANGED raised
              ELSE Raise("preprocess_data", "KeyError")
    /\ UNCHANGED <<workbook, df_viewings, df_producers, final_summary, output_file>>

merge_data ==
    /\ pc = "preprocessed"
    /\ LET res == Merge(heap[df_producers], heap[df_viewings])
       IN  IF res.ok
           THEN /\ heap' = ("merge" :> res.table) @@ heap
                /\ df_viewings' = "merge"
                /\ pc' = "merged"
                /\ UNCHANGED raised
           ELSE /\ Raise("merge_data", "KeyError")
                /\ UNCHANGED <<heap, df_viewings>>
    /\ UNCHANGED <<workbook, df_producers, final_summary, output_file>>

aggregate_data ==
    /\ pc = "merged"
    /\ LET t == heap[df_viewings]
       IN  IF ~(AggregateCols \subseteq t.cols)
           THEN /\ Raise("aggregate_data", "KeyError")
                /\ UNCHANGED <<heap, final_summary>>
           ELSE \E argmaxOfText \in BOOLEAN :
                  \* whether argmax is defined for the dtype of Programme
                  IF ~argmaxOfText /\ GroupKeys(t.rows) # <<>>
                  THEN /\ Raise("aggregate_data", "TypeError")
                       /\ UNCHANGED <<heap, final_summary>>
                  ELSE /\ heap' = ("summary" :> Summarise(t))
                                    @@ [heap EXCEPT ![df_viewings] =
                                                       SortedWithCumulative(t)]
                       /\ final_summary' = "summary"
                       /\ pc' = "aggregated"
                       /\ UNCHANGED raised
    /\ UNCHANGED <<workbook, df_viewings, df_producers, output_file>>

convert_data_types ==
    /\ pc = "aggregated"
    /\ heap' = ("astype" :> ConvertTypes(heap[final_summary])) @@ heap
    /\ final_summary' = "astype"
    /\ pc' = "converted"
    /\ UNCHANGED <<raised, workbook, df_viewings, df_producers, output_file>>

\* the destination after the first n records were written
Written(json, n, closed) == Some([records |-> SubSeq(json, 1, n), closed |-> closed])

save_summary_to_json ==
    /\ pc = "converted"
    /\ LET json == ToJson(heap[final_summary])
       IN  \E outcome \in {"ok", "open", "write"} :
             CASE outcome = "ok" ->
                    /\ output_file' = Written(json, Len(json), TRUE)
                    /\ pc' = "saved"
                    /\ UNCHANGED raised
               [] outcome = "open" ->
                    \* open(output_file, 'w') raises: the destination is not touched
                    /\ Raise("save_summary_to_json", "OSError")
                    /\ UNCHANGED output_file
               [] outcome = "write" ->
                    \* the file was created or truncated by open, the write or
                    \* the flush at close raises part way
                    /\ \E n \in 0..Len(json) :
                         output_file' = Written(json, n, FALSE)
                    /\ Raise("save_summary_to_json", "OSError")
    /\ UNCHANGED <<workbook, heap, df_viewings, df_producers, final_summary>>

\* process_and_save_data runs the stages in sequence and stops at the first raise
Next ==
    \/ load_data
    \/ preprocess_data
    \/ merge_data
    \/ aggregate_data
    \/ convert_data_types
    \/ save_summary_to_json

Spec == Init /\ [][Next]_vars

----------------------------------------------------------------------------
(* The tables of a run *)

\* the viewing table as preprocess_data left it
Normalized == heap["read_viewing"]

Producers == heap["read_producers"]

\* the table merge_data handed to aggregate_data
JoinedAtHandoff == Merge(Producers, Normalized).table

\* the joined table as it is now
Joined == heap["merge"]

Summary == heap["summary"]

Idx(t) == 1..Len(t.rows)

SameKey(r, q) == \A c \in GroupCols : r[c] = q[c]

\* the Viewers of the rows at the positions I of a table, added up
RECURSIVE ViewersAt(_, _)
ViewersAt(t, I) ==
    IF I = {} THEN 0
    ELSE LET i == CHOOSE i \in I : TRUE
         IN  (IF IsNull(t.rows[i]["Viewers"]) THEN 0 ELSE t.rows[i]["Viewers"][1])
             + ViewersAt(t, I \ {i})

\* the positions of the rows of table t that share the key of the record s
Members(t, s) == {i \in Idx(t) : SameKey(t.rows[i], s)}

----------------------------------------------------------------------------
(* C1 *)

\* C1: after merge_data every row of the normalized viewing table has a row of
\* the joined table with its Programme, Date, Channel and Viewers; no joined
\* row has a null Producer, and a row whose Programme has no producer row has
\* Producer = "Unknown".
JoinCompleteness ==
    pc = "merged" =>
      /\ \A i \in Idx(Normalized) : \E j \in Idx(Joined) :
           \A c \in {"Programme", "Date", "Channel", "Viewers"} \cap Normalized.cols :
              Joined.rows[j][c] = Normalized.rows[i][c]
      /\ \A j \in Idx(Joined) :
           /\ ~IsNull(Joined.rows[j]["Producer"])
           /\ (\A k \in Idx(Producers) :
                  Producers.rows[k]["Programme"] # Joined.rows[j]["Programme"])
              => Joined.rows[j]["Producer"] = Some(Unknown)

JoinCompletenessWitness ==
    /\ pc = "merged"
    /\ \E j \in Idx(Joined) :
         /\ Joined.rows[j]["Producer"] = Some(Unknown)
         /\ ~IsNull(Joined.rows[j]["Territory"])
         /\ \A k \in Idx(Producers) :
              Producers.rows[k]["Programme"] # Joined.rows[j]["Programme"]
    /\ \E j \in Idx(Joined) : Joined.rows[j]["Producer"] = Some(ProducerP)

----------------------------------------------------------------------------
(* C2 *)

\* C2: Top_Programme of every SummaryRecord is the Programme of the first row,
\* in row order, that attains the maximum Viewers of the record's group.
TopProgrammeIsPeakRow ==
    pc = "aggregated" =>
      \A n \in Idx(Summary) :
        LET s == Summary.rows[n]
            g == Members(JoinedAtHandoff, s)
            v(i) == JoinedAtHandoff.rows[i]["Viewers"][1]
        IN  \E i \in g :
              /\ \A j \in g : v(j) <= v(i)
              /\ \A j \in g : j < i => v(j) < v(i)
              /\ s["Top_Programme"] = JoinedAtHandoff.rows[i]["Programme"]

----------------------------------------------------------------------------
(* C3 *)

\* C3: Sum_of_Viewers of every SummaryRecord is the sum of Viewers over exactly
\* the joined rows with the record's (Producer, Month, Channel), and
\* Highest_Viewers is the maximum Viewers over those rows.
AggregateConsistency ==
    pc = "aggregated" =>
      \A n \in Idx(Summary) :
        LET s == Summary.rows[n]
            g == Members(Joined, s)
        IN  /\ s["Sum_of_Viewers"] = Some(ViewersAt(Joined, g))
            /\ \A i \in g : Joined.rows[i]["Viewers"][1] <= s["Highest_Viewers"][1]
            /\ \E i \in g : Joined.rows[i]["Viewers"] = s["Highest_Viewers"]

AggregateConsistencyWitness ==
    /\ pc = "aggregated"
    /\ \E n \in Idx(Summary) :
         /\ Cardinality(Members(Joined, Summary.rows[n])) > 1
         /\ Summary.rows[n]["Highest_Viewers"][1] > 0
         /\ \E i \in Members(Joined, Summary.rows[n]) :
              Joined.rows[i]["Viewers"] # Summary.rows[n]["Highest_Viewers"]

----------------------------------------------------------------------------
(* C4 *)

\* C4: for a fixed Producer the Cumulative_Viewers of its SummaryRecords, taken
\* in ascending (Month, Channel) order, never decrease.
CumulativeMonotone ==
    pc = "aggregated" =>
      \A n, m \in Idx(Summary) :
        LET a == Summary.rows[n]
            b == Summary.rows[m]
        IN  (/\ a["Producer"] = b["Producer"]
             /\ \/ a["Month"][1] < b["Month"][1]
                \/ a["Month"] = b["Month"] /\ a["Channel"][1] < b["Channel"][1])
            => a["Cumulative_Viewers"][1] <= b["Cumulative_Viewers"][1]

CumulativeMonotoneWitness ==
    /\ pc = "aggregated"
    /\ \E n, m \in Idx(Summary) :
         /\ Summary.rows[n]["Producer"] = Summary.rows[m]["Producer"]
         /\ Summary.rows[n]["Month"][1] < Summary.rows[m]["Month"][1]
         /\ Summary.rows[n]["Cumulative_Viewers"][1]
              < Summary.rows[m]["Cumulative_Viewers"][1]

----------------------------------------------------------------------------
(* C5 *)

\* the SummaryRecords that carry the key of the row r
RecordsFor(r) == {n \in Idx(Summary) : SameKey(Summary.rows[n], r)}

\* C5 as stated: the final summary has exactly one SummaryRecord for each
\* (Producer, Month, Channel) combination present in the joined data.
OneRecordPerJoinedKey ==
    pc = "aggregated" =>
      \A i \in Idx(Joined) : Cardinality(RecordsFor(Joined.rows[i])) = 1

\* C5 as amended: the final summary has exactly one SummaryRecord for each
\* (Producer, Month, Channel) combination of the joined data whose Month and
\* Channel are both non-null, and no SummaryRecord for any other combination.
OneRecordPerNonNullKey ==
    pc = "aggregated" =>
      /\ \A i \in Idx(Joined) :
           LET r == Joined.rows[i]
           IN  Cardinality(RecordsFor(r)) =
                 (IF IsNull(r["Month"]) \/ IsNull(r["Channel"]) THEN 0 ELSE 1)
      /\ \A n \in Idx(Summary) : Members(Joined, Summary.rows[n]) # {}

OneRecordPerNonNullKeyWitness ==
    /\ pc = "aggregated"
    /\ Len(Summary.rows) > 1
    /\ \E i \in Idx(Joined) : IsNull(Joined.rows[i]["Month"])
    /\ \E n, m \in Idx(Summary) :
         n # m /\ Summary.rows[n]["Producer"] = Summary.rows[m]["Producer"]

----------------------------------------------------------------------------
(* C6 *)

\* the tables each stage leaves behind, in stage order
Artifacts == <<"read_viewing", "read_producers", "merge", "summary", "astype">>

\* C6: the stages run in the order load, preprocess, merge, aggregate, convert,
\* save, each after its predecessor completed; when a stage fails no later
\* stage has run and nothing, not even partial output, is in the destination.
PipelineContract ==
    /\ \A n \in 2..Len(Artifacts) :
         Artifacts[n] \in DOMAIN heap => Artifacts[n - 1] \in DOMAIN heap
    /\ ~IsNull(output_file) => "astype" \in DOMAIN heap
    /\ pc = "failed" =>
         /\ IsNull(output_file)
         /\ raised[1].stage = "load_data" => "read_producers" \notin DOMAIN heap
         /\ raised[1].stage = "preprocess_data" => "merge" \notin DOMAIN heap
         /\ raised[1].stage = "merge_data" => "merge" \notin DOMAIN heap
         /\ raised[1].stage = "aggregate_data" => "summary" \notin DOMAIN heap
         /\ raised[1].stage = "convert_data_types" => "astype" \notin DOMAIN heap

----------------------------------------------------------------------------
(* C7 *)

\* C7: preprocess_data never completes on a viewing table that lacks one of
\* the columns Date, Programme, Territory, Viewers.
MissingColumnFailsPreprocess ==
    (pc \notin {"start", "loaded"} /\ "read_producers" \in DOMAIN heap
       /\ ~({"Date", "Programme", "Territory", "Viewers"} \subseteq workbook.viewing.cols))
    => (pc = "failed" /\ raised[1].stage = "preprocess_data")

----------------------------------------------------------------------------
(* C8 *)

\* the Viewers of one Producer added up over the first i rows of the joined table
RunningTotal(i) ==
    ViewersAt(Joined, {j \in 1..i : Joined.rows[j]["Producer"] = Joined.rows[i]["Producer"]})

\* C8: the joined rows are sorted ascending by (Producer, Month, Channel, Date),
\* the running sum of Viewers runs per Producer without a reset at a Month or
\* Channel boundary, and Cumulative_Viewers of every group is the running
\* total as of the last row of the group in that order.
CumulativeIsRunningTotal ==
    pc = "aggregated" =>
      /\ \A i, j \in Idx(Joined) : i < j => ~SortLess(Joined.rows[j], Joined.rows[i])
      /\ \A n \in Idx(Summary) :
           LET last == MaxOf(Members(Joined, Summary.rows[n]))
           IN  Summary.rows[n]["Cumulative_Viewers"] = Some(RunningTotal(last))

CumulativeIsRunningTotalWitness ==
    /\ pc = "aggregated"
    /\ \E n \in Idx(Summary) :
         /\ Summary.rows[n]["Sum_of_Viewers"][1] > 0
         /\ Summary.rows[n]["Cumulative_Viewers"][1] > Summary.rows[n]["Sum_of_Viewers"][1]

----------------------------------------------------------------------------
(* C9 *)

\* C9 as stated: no step changes a table that exists already.
NoTableMutatedInPlace ==
    [][\A o \in DOMAIN heap : heap'[o] = heap[o]]_vars

\* the rows of a table restricted to the columns cols
Restricted(t, cols) == MapRows(t.rows, LAMBDA r : [c \in cols |-> r[c]])

SameBag(a, b) ==
    /\ Len(a) = Len(b)
    /\ \A i \in 1..Len(a) :
         Cardinality({j \in 1..Len(a) : a[j] = a[i]})
           = Cardinality({j \in 1..Len(b) : b[j] = a[i]})

\* C9 as amended: merge_data, convert_data_types and save_summary_to_json
\* change no table that exists already and the producers table is never
\* changed; preprocess_data rewrites the loaded viewing table in place, keeping
\* its rows in order and its Channel column; aggregate_data sorts the joined
\* table in place and adds the column Cumulative_Viewers to it, keeping the bag
\* of its rows over the columns it had.
OnlyPreprocessAndAggregateMutate ==
    [][\A o \in DOMAIN heap :
         \/ heap'[o] = heap[o]
         \/ /\ o = "read_viewing" /\ pc = "loaded"
            /\ Len(heap'[o].rows) = Len(heap[o].rows)
            /\ heap[o].cols \subseteq heap'[o].cols
            /\ "Channel" \in heap[o].cols =>
                 Restricted(heap'[o], {"Channel"}) = Restricted(heap[o], {"Channel"})
         \/ /\ o = "merge" /\ pc = "merged"
            /\ heap'[o].cols = heap[o].cols \cup {"Cumulative_Viewers"}
            /\ SameBag(Restricted(heap'[o], heap[o].cols), heap[o].rows)]_vars

OnlyPreprocessAndAggregateMutateWitness ==
    /\ pc = "aggregated"
    /\ Restricted(Joined, JoinedAtHandoff.cols) # JoinedAtHandoff.rows
    /\ "Cumulative_Viewers" \notin JoinedAtHandoff.cols

----------------------------------------------------------------------------
(* C10 *)

RemoveAt(s, i) == SubSeq(s, 1, i - 1) \o SubSeq(s, i + 1, Len(s))

\* the SummaryRecords of a run of the stages on the viewing sheet v
SummaryOf(v) == Summarise(Merge(workbook.producers, Preprocess(v).table).table).rows

\* C10: removing a viewing row whose Date is null or unparseable from the input
\* leaves every field of every SummaryRecord, Cumulative_Viewers included,
\* unchanged.
NullMonthRowsHaveNoInfluence ==
    pc = "aggregated" =>
      \A i \in Idx(workbook.viewing) :
        IsNull(ToDatetime(workbook.viewing.rows[i]["Date"])) =>
          SummaryOf([cols |-> workbook.viewing.cols,
                     rows |-> RemoveAt(workbook.viewing.rows, i)]) = Summary.rows

NullMonthRowsHaveNoInfluenceWitness ==
    /\ pc = "aggregated"
    /\ \E i \in Idx(Joined), n \in Idx(Summary) :
         /\ IsNull(Joined.rows[i]["Month"])
         /\ ~IsNull(Joined.rows[i]["Viewers"])
         /\ Joined.rows[i]["Viewers"][1] > 0
         /\ Joined.rows[i]["Producer"] = Summary.rows[n]["Producer"]
         /\ Summary.rows[n]["Cumulative_Viewers"][1] > 0

====
